---- MODULE Spec2Model ----
(***************************************************************************)
(* Model of infra/__main__.py, the Pulumi program that declares the GCP    *)
(* infrastructure of the Expert Agent Platform.                            *)
(*                                                                         *)
(* One evaluation of the program is a run of the script from top to        *)
(* bottom for one stack configuration (env, region, domain_verified,       *)
(* site_verification_token).  Each section of the script is one action;    *)
(* pc is the section about to run.  A declared resource is a record with   *)
(* its Pulumi type, its logical name, its properties, and its resource     *)
(* options (depends_on, import_, ignore_changes); refs are the resources   *)
(* whose outputs it takes as inputs.                                       *)
(*                                                                         *)
(* Values: every scalar property is kept as the string Python prints for   *)
(* it (True, 20, "us-west1"), nested argument objects are flattened into   *)
(* dotted keys, and an output that is only known after creation is the     *)
(* token ${resource.attribute}.  A missing configuration value (None) is   *)
(* NoneVal.                                                                *)
(***************************************************************************)
EXTENDS Integers, Sequences, FiniteSets, TLC

VARIABLES cfg, pc, enabled_apis, resources, exports, prev, watch, created

vars == <<cfg, pc, enabled_apis, resources, exports, prev, watch, created>>

NoneVal == "<None>"

(***************************************************************************)
(* String helpers.  A string the program edits with str.replace is kept    *)
(* as its sequence of tokens, every separator character a token of its     *)
(* own, so that replace acts on the separators only.                       *)
(***************************************************************************)
RECURSIVE Str(_)
Str(toks) == IF toks = <<>> THEN "" ELSE Head(toks) \o Str(Tail(toks))

Replace(toks, old, new) ==
    [i \in 1..Len(toks) |-> IF toks[i] = old THEN new ELSE toks[i]]

\* x or default, for a string or None x
PyOr(x, default) == IF x \in {NoneVal, ""} THEN default ELSE x

\* bool(x) for a string or None x
Truthy(x) == x \notin {NoneVal, ""}

\* Config.get_bool: None when the key is absent, else the parsed boolean
GetBool(x) == IF x = NoneVal THEN NoneVal ELSE IF x = "true" THEN "True" ELSE "False"

PyBool(b) == IF b THEN "True" ELSE "False"

Range(s) == {s[i] : i \in DOMAIN s}

(***************************************************************************)
(* Configuration tables                                                    *)
(***************************************************************************)
projects ==
    [k \in {"root", "dev", "beta", "gamma", "prod"} |->
        CASE k = "root"  -> "expert-ai-root"
          [] k = "dev"   -> "expert-ai-dev"
          [] k = "beta"  -> "expert-ai-beta"
          [] k = "gamma" -> "expert-ai-gamma"
          [] k = "prod"  -> "expert-ai-prod-484103"]

DOMAIN_CONFIGS ==
    [k \in {"dev", "beta", "gamma", "prod"} |->
        CASE k = "dev"   -> [domain |-> "ai-dev.oz.ly",   dns_zone_name |-> "ai-dev-oz-ly"]
          [] k = "beta"  -> [domain |-> "ai-beta.oz.ly",  dns_zone_name |-> "ai-beta-oz-ly"]
          [] k = "gamma" -> [domain |-> "ai-gamma.oz.ly", dns_zone_name |-> "ai-gamma-oz-ly"]
          [] k = "prod"  -> [domain |-> "ai.oz.ly",       dns_zone_name |-> "ai-oz-ly"]]

ENV_CONFIGS ==
    [k \in {"dev", "beta", "gamma", "prod"} |->
        CASE k = "dev"   -> [cloud_sql_tier |-> "db-f1-micro", cloud_run_memory |-> "512Mi",
                             cloud_run_cpu |-> "1", cloud_run_min_instances |-> 0,
                             cloud_run_max_instances |-> 3, skip_resources |-> FALSE]
          [] k = "beta"  -> [cloud_sql_tier |-> "db-f1-micro", cloud_run_memory |-> "512Mi",
                             cloud_run_cpu |-> "1", cloud_run_min_instances |-> 0,
                             cloud_run_max_instances |-> 5, skip_resources |-> FALSE]
          [] k = "gamma" -> [cloud_sql_tier |-> "db-f1-micro", cloud_run_memory |-> "1Gi",
                             cloud_run_cpu |-> "1", cloud_run_min_instances |-> 0,
                             cloud_run_max_instances |-> 10, skip_resources |-> FALSE]
          [] k = "prod"  -> [cloud_sql_tier |-> "db-g1-small", cloud_run_memory |-> "1Gi",
                             cloud_run_cpu |-> "2", cloud_run_min_instances |-> 0,
                             cloud_run_max_instances |-> 50, skip_resources |-> TRUE]]

\* The stack configurations an evaluation is run with.  env is one of the
\* four environments (any other value raises KeyError at the first lookup).
Envs == {"dev", "beta", "gamma", "prod"}
Regions == {NoneVal, "europe-west1"}
DomainVerifiedValues == {NoneVal, "true", "false"}
TokenValues == {NoneVal, "", "google-site-verification=tok"}

Configs ==
    [env : Envs, region : Regions, domain_verified : DomainVerifiedValues,
     site_verification_token : TokenValues]

region(c) == PyOr(c.region, "us-west1")
project_id(c) == projects[c.env]
root_project_id == projects["root"]
\* A slip: the table read at a fixed key
domain_config_prod(c) == DOMAIN_CONFIGS["prod"]

domain_config(c) == DOMAIN_CONFIGS[c.env]
env_config(c) == ENV_CONFIGS[c.env]

(***************************************************************************)
(* Resources                                                               *)
(***************************************************************************)
NoProps == [k \in {} |-> ""]
NoLists == [k \in {} |-> <<>>]

\* pulumi.ResourceOptions(depends_on=..., import_=..., ignore_changes=...)
ResourceOptions(depends_on, import_, ignore_changes) ==
    [depends_on |-> depends_on, import_ |-> import_, ignore_changes |-> ignore_changes]

NoOpts == ResourceOptions({}, NoneVal, <<>>)

Resource(type, name, props, lists, refs, opts) ==
    [type |-> type, name |-> name, props |-> props, lists |-> lists, refs |-> refs,
     depends_on |-> opts.depends_on, import_ |-> opts.import_,
     ignore_changes |-> opts.ignore_changes]

\* The output r.attr: the input of that name when the program gave one,
\* otherwise a value known only after r is created.
Attr(r, a) == IF a \in DOMAIN r.props THEN r.props[a]
              ELSE "${" \o r.name \o "." \o a \o "}"

(***************************************************************************)
(* Enable Required APIs                                                    *)
(***************************************************************************)
required_apis ==
    << <<"run", ".", "googleapis", ".", "com">>,
       <<"sqladmin", ".", "googleapis", ".", "com">>,
       <<"compute", ".", "googleapis", ".", "com">>,
       <<"storage", ".", "googleapis", ".", "com">>,
       <<"aiplatform", ".", "googleapis", ".", "com">>,
       <<"secretmanager", ".", "googleapis", ".", "com">>,
       <<"cloudbuild", ".", "googleapis", ".", "com">>,
       <<"cloudscheduler", ".", "googleapis", ".", "com">>,
       <<"logging", ".", "googleapis", ".", "com">>,
       <<"monitoring", ".", "googleapis", ".", "com">>,
       <<"pubsub", ".", "googleapis", ".", "com">>,
       <<"iam", ".", "googleapis", ".", "com">>,
       <<"artifactregistry", ".", "googleapis", ".", "com">> >>

enabled_api(c, api) ==
    Resource("gcp.projects.Service",
             "enable-" \o Str(Replace(api, ".", "-")),
             ("project" :> project_id(c)) @@ ("service" :> Str(api))
                 @@ ("disable_on_destroy" :> "False"),
             NoLists, {}, NoOpts)

(***************************************************************************)
(* Cloud SQL (PostgreSQL)                                                  *)
(***************************************************************************)
\* apis is the value of the list enabled_apis when the instance is declared
sql_instance(c, apis) ==
    Resource("gcp.sql.DatabaseInstance",
             "expert-agent-db-" \o c.env,
             ("project" :> project_id(c)) @@ ("region" :> region(c))
                 @@ ("database_version" :> "POSTGRES_15")
                 @@ ("deletion_protection" :> PyBool(c.env = "prod"))
                 @@ ("settings.tier" :> env_config(c).cloud_sql_tier)
                 @@ ("settings.disk_size" :> "20")
                 @@ ("settings.disk_type" :> "PD_SSD")
                 @@ ("settings.disk_autoresize" :> "True")
                 @@ ("settings.ip_configuration.ipv4_enabled" :> "True")
                 @@ ("settings.database_flags[0].name" :> "max_connections")
                 @@ ("settings.database_flags[0].value" :> "100")
                 @@ ("settings.backup_configuration.enabled" :> "True")
                 @@ ("settings.backup_configuration.start_time" :> "03:00")
                 @@ ("settings.backup_configuration.point_in_time_recovery_enabled"
                         :> PyBool(c.env = "prod"))
                 @@ ("settings.maintenance_window.day" :> "7")
                 @@ ("settings.maintenance_window.hour" :> "4"),
             ("settings.ip_configuration.authorized_networks" :> <<>>),
             {},
             ResourceOptions(Range(apis), NoneVal, <<>>))

database(c, apis) ==
    Resource("gcp.sql.Database",
             "expert-agent-database-" \o c.env,
             ("project" :> project_id(c))
                 @@ ("instance" :> Attr(sql_instance(c, apis), "name"))
                 @@ ("name" :> "expert_agent"),
             NoLists, {sql_instance(c, apis).name}, NoOpts)

db_password_resource(c) ==
    Resource("random.RandomPassword",
             "db-password-" \o c.env,
             ("length" :> "32") @@ ("special" :> "True")
                 @@ ("override_special" :> "!#$%&*()-_=+[]{}<>:?"),
             NoLists, {}, NoOpts)

db_user(c, apis) ==
    Resource("gcp.sql.User",
             "expert-agent-db-user-" \o c.env,
             ("project" :> project_id(c))
                 @@ ("instance" :> Attr(sql_instance(c, apis), "name"))
                 @@ ("name" :> "expert_agent")
                 @@ ("password" :> Attr(db_password_resource(c), "result")),
             NoLists, {sql_instance(c, apis).name, db_password_resource(c).name}, NoOpts)

(***************************************************************************)
(* Cloud Storage Buckets                                                   *)
(***************************************************************************)
uploads_bucket_opts(c) ==
    ResourceOptions({},
        IF c.env = "dev" THEN project_id(c) \o "/expert-agent-uploads-" \o c.env ELSE NoneVal,
        IF c.env = "dev" THEN <<"name", "forceDestroy">> ELSE <<>>)

uploads_bucket(c) ==
    Resource("gcp.storage.Bucket",
             "expert-agent-uploads-" \o c.env,
             ("project" :> project_id(c))
                 @@ ("name" :> "expert-agent-uploads-" \o c.env)
                 @@ ("location" :> region(c))
                 @@ ("force_destroy" :> PyBool(c.env # "prod"))
                 @@ ("uniform_bucket_level_access" :> "True")
                 @@ ("versioning.enabled" :> PyBool(c.env = "prod"))
                 @@ ("lifecycle_rules[0].condition.age" :> "90")
                 @@ ("lifecycle_rules[0].action.type" :> "Delete")
                 @@ ("cors[0].max_age_seconds" :> "3600"),
             ("cors[0].origins" :> <<"*">>)
                 @@ ("cors[0].methods" :> <<"GET", "PUT", "POST">>)
                 @@ ("cors[0].response_headers" :> <<"Content-Type">>),
             {}, uploads_bucket_opts(c))

summaries_bucket_opts(c) ==
    ResourceOptions({},
        IF c.env = "dev" THEN project_id(c) \o "/expert-agent-summaries-" \o c.env ELSE NoneVal,
        IF c.env = "dev" THEN <<"name", "forceDestroy">> ELSE <<>>)

summaries_bucket(c) ==
    Resource("gcp.storage.Bucket",
             "expert-agent-summaries-" \o c.env,
             ("project" :> project_id(c))
                 @@ ("name" :> "expert-agent-summaries-" \o c.env)
                 @@ ("location" :> region(c))
                 @@ ("force_destroy" :> PyBool(c.env # "prod"))
                 @@ ("uniform_bucket_level_access" :> "True")
                 @@ ("storage_class" :> "NEARLINE"),
             NoLists, {}, summaries_bucket_opts(c))

(***************************************************************************)
(* Service Account for Cloud Run                                           *)
(***************************************************************************)
sa_import_id(c) ==
    "projects/" \o project_id(c) \o "/serviceAccounts/expert-agent-sa@"
        \o project_id(c) \o ".iam.gserviceaccount.com"

sa_opts(c) ==
    ResourceOptions({},
        IF c.env = "dev" THEN sa_import_id(c) ELSE NoneVal,
        IF c.env = "dev" THEN <<"account_id">> ELSE <<>>)

cloud_run_sa(c) ==
    Resource("gcp.serviceaccount.Account",
             "expert-agent-sa-" \o c.env,
             ("project" :> project_id(c))
                 @@ ("account_id" :> "expert-agent-sa")
                 @@ ("display_name" :>
                        "Expert Agent Cloud Run Service Account (" \o c.env \o ")"),
             NoLists, {}, sa_opts(c))

sa_roles ==
    << <<"roles", "/", "cloudsql", ".", "client">>,
       <<"roles", "/", "storage", ".", "objectAdmin">>,
       <<"roles", "/", "secretmanager", ".", "secretAccessor">>,
       <<"roles", "/", "aiplatform", ".", "user">>,
       <<"roles", "/", "logging", ".", "logWriter">>,
       <<"roles", "/", "cloudtrace", ".", "agent">> >>

sa_role_member(c, role) ==
    Resource("gcp.projects.IAMMember",
             "sa-" \o Str(Replace(Replace(role, "/", "-"), ".", "-")) \o "-" \o c.env,
             ("project" :> project_id(c)) @@ ("role" :> Str(role))
                 @@ ("member" :> "serviceAccount:" \o Attr(cloud_run_sa(c), "email")),
             NoLists, {cloud_run_sa(c).name}, NoOpts)

(***************************************************************************)
(* CI/CD IAM Permissions                                                   *)
(***************************************************************************)
\* gcp.organizations.get_project(project_id).number: a lookup in the cloud,
\* a value the program only formats
project_number(c) == "${projects/" \o project_id(c) \o ".number}"

cloud_build_sa_email(c) == project_number(c) \o "@cloudbuild.gserviceaccount.com"

compute_sa_email(c) == project_number(c) \o "-compute@developer.gserviceaccount.com"

cloud_build_acts_as(c) ==
    Resource("gcp.serviceaccount.IAMBinding",
             "cloud-build-acts-as-cloud-run-sa-" \o c.env,
             ("service_account_id" :> Attr(cloud_run_sa(c), "id"))
                 @@ ("role" :> "roles/iam.serviceAccountUser"),
             ("members" :> << "serviceAccount:" \o cloud_build_sa_email(c),
                              "serviceAccount:" \o compute_sa_email(c) >>),
             {cloud_run_sa(c).name}, NoOpts)

\* gcp.projects.IAMMember(name-{env}, project=project_id, role=..., member=...)
project_iam_member(c, name, role, member) ==
    Resource("gcp.projects.IAMMember",
             name \o "-" \o c.env,
             ("project" :> project_id(c)) @@ ("role" :> role) @@ ("member" :> member),
             NoLists, {}, NoOpts)

cloud_build_iam(c) ==
    { project_iam_member(c, "cloud-build-run-admin", "roles/run.admin",
                         "serviceAccount:" \o cloud_build_sa_email(c)),
      project_iam_member(c, "cloud-build-artifact-writer", "roles/artifactregistry.writer",
                         "serviceAccount:" \o cloud_build_sa_email(c)) }

(***************************************************************************)
(* Cloud Build Infrastructure SA (Dedicated)                               *)
(***************************************************************************)
\* A slip: the account of the root project
cloud_build_infra_sa_email_root(c) ==
    "cloud-build-infra@" \o root_project_id \o ".iam.gserviceaccount.com"

cloud_build_infra_sa_email(c) ==
    "cloud-build-infra@" \o project_id(c) \o ".iam.gserviceaccount.com"

cloud_build_infra_iam(c) ==
    { project_iam_member(c, "cloud-build-infra-editor", "roles/editor",
                         "serviceAccount:" \o cloud_build_infra_sa_email(c)),
      project_iam_member(c, "cloud-build-infra-iam-admin",
                         "roles/resourcemanager.projectIamAdmin",
                         "serviceAccount:" \o cloud_build_infra_sa_email(c)),
      project_iam_member(c, "cloud-build-infra-storage", "roles/storage.admin",
                         "serviceAccount:" \o cloud_build_infra_sa_email(c)),
      project_iam_member(c, "cloud-build-infra-secrets", "roles/secretmanager.secretAccessor",
                         "serviceAccount:" \o cloud_build_infra_sa_email(c)),
      project_iam_member(c, "cloud-build-infra-logging", "roles/logging.logWriter",
                         "serviceAccount:" \o cloud_build_infra_sa_email(c)) }

(***************************************************************************)
(* Artifact Registry                                                       *)
(***************************************************************************)
ar_import_id(c) ==
    "projects/" \o project_id(c) \o "/locations/" \o region(c) \o "/repositories/expert-agent"

ar_opts(c) ==
    ResourceOptions({},
        IF c.env = "dev" THEN ar_import_id(c) ELSE NoneVal,
        IF c.env = "dev" THEN <<"repository_id">> ELSE <<>>)

artifact_registry(c) ==
    Resource("gcp.artifactregistry.Repository",
             "expert-agent-docker-repo-" \o c.env,
             ("project" :> project_id(c)) @@ ("location" :> region(c))
                 @@ ("repository_id" :> "expert-agent") @@ ("format" :> "DOCKER")
                 @@ ("description" :>
                        "Docker images for Expert Agent Platform (" \o c.env \o ")"),
             NoLists, {}, ar_opts(c))

(***************************************************************************)
(* Secret Manager Secrets (placeholders)                                   *)
(***************************************************************************)
secrets ==
    << "database-url", "google-client-id", "google-client-secret", "apple-client-id",
       "apple-client-secret", "stripe-secret-key", "stripe-webhook-secret" >>

secret_import_id(c, secret_name) ==
    "projects/" \o project_id(c) \o "/secrets/" \o secret_name

secret_opts(c, secret_name) ==
    ResourceOptions({},
        IF c.env = "dev" THEN secret_import_id(c, secret_name) ELSE NoneVal,
        IF c.env = "dev" THEN <<"secret_id">> ELSE <<>>)

secret(c, secret_name) ==
    Resource("gcp.secretmanager.Secret",
             "secret-" \o secret_name \o "-" \o c.env,
             ("project" :> project_id(c)) @@ ("secret_id" :> secret_name)
                 @@ ("replication.auto" :> "SecretReplicationAutoArgs()"),
             NoLists, {}, secret_opts(c, secret_name))

(***************************************************************************)
(* Pub/Sub Topics                                                          *)
(***************************************************************************)
summarization_topic_opts(c) ==
    ResourceOptions({},
        IF c.env = "dev"
            THEN "projects/" \o project_id(c) \o "/topics/session-summarization-" \o c.env
            ELSE NoneVal,
        IF c.env = "dev" THEN <<"name">> ELSE <<>>)

summarization_topic(c) ==
    Resource("gcp.pubsub.Topic",
             "session-summarization-" \o c.env,
             ("project" :> project_id(c)) @@ ("name" :> "session-summarization-" \o c.env),
             NoLists, {}, summarization_topic_opts(c))

file_processing_topic_opts(c) ==
    ResourceOptions({},
        IF c.env = "dev"
            THEN "projects/" \o project_id(c) \o "/topics/file-processing-" \o c.env
            ELSE NoneVal,
        IF c.env = "dev" THEN <<"name">> ELSE <<>>)

file_processing_topic(c) ==
    Resource("gcp.pubsub.Topic",
             "file-processing-" \o c.env,
             ("project" :> project_id(c)) @@ ("name" :> "file-processing-" \o c.env),
             NoLists, {}, file_processing_topic_opts(c))

(***************************************************************************)
(* Cloud Scheduler                                                         *)
(***************************************************************************)
\* A slip: the e-mail written out instead of taken from the declared account
summarization_job_static_email(c, apis) ==
    Resource("gcp.cloudscheduler.Job",
             "memory-summarization-job-" \o c.env,
             ("project" :> project_id(c)) @@ ("name" :> "memory-summarization-" \o c.env)
                 @@ ("region" :> region(c)) @@ ("schedule" :> "0 3 * * *")
                 @@ ("time_zone" :> "America/Los_Angeles")
                 @@ ("http_target.uri" :>
                        "https://expert-agent-" \o project_id(c) \o "." \o region(c)
                            \o ".run.app/api/internal/summarize-sessions")
                 @@ ("http_target.http_method" :> "POST")
                 @@ ("http_target.oidc_token.service_account_email" :>
                        "expert-agent-sa@" \o project_id(c) \o ".iam.gserviceaccount.com"),
             NoLists, {},
             ResourceOptions(Range(apis), NoneVal, <<>>))

\* apis is the value of the list enabled_apis when the job is declared
summarization_job(c, apis) ==
    Resource("gcp.cloudscheduler.Job",
             "memory-summarization-job-" \o c.env,
             ("project" :> project_id(c)) @@ ("name" :> "memory-summarization-" \o c.env)
                 @@ ("region" :> region(c)) @@ ("schedule" :> "0 3 * * *")
                 @@ ("time_zone" :> "America/Los_Angeles")
                 @@ ("http_target.uri" :>
                        "https://expert-agent-" \o project_id(c) \o "." \o region(c)
                            \o ".run.app/api/internal/summarize-sessions")
                 @@ ("http_target.http_method" :> "POST")
                 @@ ("http_target.oidc_token.service_account_email" :>
                        Attr(cloud_run_sa(c), "email")),
             NoLists, {cloud_run_sa(c).name},
             ResourceOptions(Range(apis), NoneVal, <<>>))

\* A slip: the job declared whatever the environment
scheduler_section_unconditional(c, apis) == {summarization_job(c, apis)}

\* The section as a whole: if env != "dev"
scheduler_section(c, apis) ==
    IF c.env # "dev" THEN {summarization_job(c, apis)} ELSE {}

(***************************************************************************)
(* Cloud DNS Configuration                                                 *)
(***************************************************************************)
dns_api(c) ==
    Resource("gcp.projects.Service",
             "enable-dns-api",
             ("project" :> project_id(c)) @@ ("service" :> "dns.googleapis.com")
                 @@ ("disable_on_destroy" :> "False"),
             NoLists, {}, NoOpts)

dns_zone_import_id(c) ==
    "projects/" \o project_id(c) \o "/managedZones/" \o domain_config(c).dns_zone_name

\* A slip: depends_on=[dns_api] left out
dns_zone_opts_no_depends(c) ==
    ResourceOptions({},
        IF c.env = "dev" THEN dns_zone_import_id(c) ELSE NoneVal,
        IF c.env = "dev" THEN <<"name">> ELSE <<>>)

\* A slip: the zone made to wait for one of its own record sets
dns_zone_opts_waits_for_record(c) ==
    ResourceOptions({dns_api(c).name, "dns-apex-a-" \o c.env},
        IF c.env = "dev" THEN dns_zone_import_id(c) ELSE NoneVal,
        IF c.env = "dev" THEN <<"name">> ELSE <<>>)

dns_zone_opts(c) ==
    ResourceOptions({dns_api(c).name},
        IF c.env = "dev" THEN dns_zone_import_id(c) ELSE NoneVal,
        IF c.env = "dev" THEN <<"name">> ELSE <<>>)

dns_zone(c) ==
    Resource("gcp.dns.ManagedZone",
             "dns-zone-" \o c.env,
             ("project" :> project_id(c)) @@ ("name" :> domain_config(c).dns_zone_name)
                 @@ ("dns_name" :> domain_config(c).domain \o ".")
                 @@ ("description" :> "DNS zone for Expert Agent Platform (" \o c.env \o ")")
                 @@ ("visibility" :> "public"),
             NoLists, {}, dns_zone_opts(c))

\* A slip: the import of the dev record set not limited to dev
apex_a_record_opts_always_import(c) ==
    ResourceOptions({dns_zone(c).name},
        project_id(c) \o "/ai-dev-oz-ly/ai-dev.oz.ly./A",
        <<"name", "type">>)

apex_a_record_opts(c) ==
    ResourceOptions({dns_zone(c).name},
        IF c.env = "dev" THEN project_id(c) \o "/ai-dev-oz-ly/ai-dev.oz.ly./A" ELSE NoneVal,
        IF c.env = "dev" THEN <<"name", "type">> ELSE <<>>)

apex_a_record(c) ==
    Resource("gcp.dns.RecordSet",
             "dns-apex-a-" \o c.env,
             ("project" :> project_id(c))
                 @@ ("managed_zone" :> Attr(dns_zone(c), "name"))
                 @@ ("name" :> domain_config(c).domain \o ".")
                 @@ ("type" :> "A") @@ ("ttl" :> "300"),
             ("rrdatas" :> <<"216.239.32.21", "216.239.34.21",
                             "216.239.36.21", "216.239.38.21">>),
             {dns_zone(c).name}, apex_a_record_opts(c))

apex_aaaa_record_opts(c) ==
    ResourceOptions({dns_zone(c).name},
        IF c.env = "dev" THEN project_id(c) \o "/ai-dev-oz-ly/ai-dev.oz.ly./AAAA" ELSE NoneVal,
        IF c.env = "dev" THEN <<"name", "type">> ELSE <<>>)

apex_aaaa_record(c) ==
    Resource("gcp.dns.RecordSet",
             "dns-apex-aaaa-" \o c.env,
             ("project" :> project_id(c))
                 @@ ("managed_zone" :> Attr(dns_zone(c), "name"))
                 @@ ("name" :> domain_config(c).domain \o ".")
                 @@ ("type" :> "AAAA") @@ ("ttl" :> "300"),
             ("rrdatas" :> <<"2001:4860:4802:32::15", "2001:4860:4802:34::15",
                             "2001:4860:4802:36::15", "2001:4860:4802:38::15">>),
             {dns_zone(c).name}, apex_aaaa_record_opts(c))

www_cname_record(c) ==
    Resource("gcp.dns.RecordSet",
             "dns-www-cname-" \o c.env,
             ("project" :> project_id(c))
                 @@ ("managed_zone" :> Attr(dns_zone(c), "name"))
                 @@ ("name" :> "www." \o domain_config(c).domain \o ".")
                 @@ ("type" :> "CNAME") @@ ("ttl" :> "300"),
             ("rrdatas" :> <<"ghs.googlehosted.com.">>),
             {dns_zone(c).name},
             ResourceOptions({dns_zone(c).name}, NoneVal, <<>>))

site_verification_token(c) == c.site_verification_token

site_verification_txt(c) ==
    Resource("gcp.dns.RecordSet",
             "dns-site-verification-" \o c.env,
             ("project" :> project_id(c))
                 @@ ("managed_zone" :> Attr(dns_zone(c), "name"))
                 @@ ("name" :> domain_config(c).domain \o ".")
                 @@ ("type" :> "TXT") @@ ("ttl" :> "300"),
             ("rrdatas" :> << "\"" \o site_verification_token(c) \o "\"" >>),
             {dns_zone(c).name},
             ResourceOptions({dns_zone(c).name}, NoneVal, <<>>))

\* The section as a whole: if site_verification_token
site_verification_section(c) ==
    IF Truthy(site_verification_token(c)) THEN {site_verification_txt(c)} ELSE {}

(***************************************************************************)
(* Cloud Run Domain Mapping                                                *)
(***************************************************************************)
\* A slip: config.get in place of config.get_bool, any set string being true
domain_verified_any_string(c) == Truthy(c.domain_verified)

\* config.get_bool("domain_verified") or False
domain_verified(c) == GetBool(c.domain_verified) = "True"

domain_mapping_import_id(c) ==
    "locations/" \o region(c) \o "/namespaces/" \o project_id(c)
        \o "/domainmappings/" \o domain_config(c).domain

domain_mapping_opts(c) ==
    ResourceOptions({dns_zone(c).name},
        IF c.env = "dev" THEN domain_mapping_import_id(c) ELSE NoneVal,
        IF c.env = "dev" THEN <<"name">> ELSE <<>>)

domain_mapping(c) ==
    Resource("gcp.cloudrun.DomainMapping",
             "domain-mapping-" \o c.env,
             ("project" :> project_id(c)) @@ ("location" :> region(c))
                 @@ ("name" :> domain_config(c).domain)
                 @@ ("metadata.namespace" :> project_id(c))
                 @@ ("spec.route_name" :> "expert-agent")
                 @@ ("opts.custom_timeouts.create" :> "2m")
                 @@ ("opts.custom_timeouts.update" :> "2m"),
             NoLists, {}, domain_mapping_opts(c))

\* The section as a whole: the resources it declares and the value it exports
domain_mapping_section(c) ==
    IF domain_verified(c) THEN {domain_mapping(c)} ELSE {}

PendingMessage ==
    "Domain mapping pending verification - set domain_verified: true in config after verifying domain"

\* A slip: the else branch, and with it the export, left out
domain_mapping_exports_no_else(c) ==
    IF domain_verified(c)
        THEN << [key |-> "domain_mapping_url", value |-> "https://" \o domain_config(c).domain] >>
        ELSE << >>

\* The calls of export in the section, in either branch
domain_mapping_exports(c) ==
    IF domain_verified(c)
        THEN << [key |-> "domain_mapping_url", value |-> "https://" \o domain_config(c).domain] >>
        ELSE << [key |-> "domain_mapping_url", value |-> PendingMessage] >>

(***************************************************************************)
(* Exports                                                                 *)
(***************************************************************************)
\* pulumi.export(key, value): one call, in program order
Export(key, value) == [key |-> key, value |-> value]

\* A slip: a misspelt key, so that get returns its default
skip_resources_default(c) == FALSE

\* env_config.get("skip_resources", False)
skip_resources(c) == env_config(c).skip_resources

skip_exports(c) ==
    << Export("project_id", project_id(c)),
       Export("env", c.env),
       Export("skip_resources", "True"),
       Export("message", "Resources skipped for " \o c.env
                  \o " environment to avoid costs. Set skip_resources: False when ready to deploy.") >>

final_exports(c, apis) ==
    << Export("project_id", project_id(c)),
       Export("env", c.env),
       Export("sql_instance_name", Attr(sql_instance(c, apis), "name")),
       Export("sql_connection_name", Attr(sql_instance(c, apis), "connection_name")),
       Export("uploads_bucket", Attr(uploads_bucket(c), "name")),
       Export("summaries_bucket", Attr(summaries_bucket(c), "name")),
       Export("cloud_run_sa_email", Attr(cloud_run_sa(c), "email")),
       Export("summarization_topic", Attr(summarization_topic(c), "name")),
       Export("file_processing_topic", Attr(file_processing_topic(c), "name")),
       Export("domain", domain_config(c).domain),
       Export("dns_zone_name", Attr(dns_zone(c), "name")),
       Export("dns_nameservers", Attr(dns_zone(c), "name_servers")) >>

(***************************************************************************)
(* The evaluation, section by section                                      *)
(***************************************************************************)
NoPrev == [valid |-> FALSE, cfg |-> NoneVal, resources |-> {}, exports |-> <<>>]

Init ==
    /\ cfg \in Configs
    /\ pc = "skip_check"
    /\ enabled_apis = <<>>
    /\ resources = {}
    /\ exports = <<>>
    /\ prev = NoPrev
    /\ watch = {}
    /\ created = {}

\* A section that declares the resources decl and then goes on to section to
Declare(from, to, decl) ==
    /\ pc = from
    /\ resources' = resources \cup decl
    /\ pc' = to
    /\ UNCHANGED <<cfg, enabled_apis, exports, prev, watch, created>>

SkipCheck ==
    /\ pc = "skip_check"
    /\ IF skip_resources(cfg)
          THEN /\ exports' = exports \o skip_exports(cfg)
               /\ pc' = "exited"
          ELSE /\ exports' = exports
               /\ pc' = "enable_apis"
    /\ UNCHANGED <<cfg, enabled_apis, resources, prev, watch, created>>

EnableApis ==
    /\ pc = "enable_apis"
    /\ resources' = resources \cup {enabled_api(cfg, api) : api \in Range(required_apis)}
    /\ enabled_apis' = enabled_apis
            \o [i \in 1..Len(required_apis) |-> enabled_api(cfg, required_apis[i]).name]
    /\ pc' = "cloud_sql"
    /\ UNCHANGED <<cfg, exports, prev, watch, created>>

CloudSql ==
    Declare("cloud_sql", "buckets",
            {sql_instance(cfg, enabled_apis), database(cfg, enabled_apis),
             db_password_resource(cfg), db_user(cfg, enabled_apis)})

Buckets ==
    Declare("buckets", "service_account", {uploads_bucket(cfg), summaries_bucket(cfg)})

ServiceAccount ==
    Declare("service_account", "cicd_iam",
            {cloud_run_sa(cfg)} \cup {sa_role_member(cfg, role) : role \in Range(sa_roles)})

CicdIam ==
    Declare("cicd_iam", "cloud_build_infra", {cloud_build_acts_as(cfg)} \cup cloud_build_iam(cfg))

CloudBuildInfra ==
    Declare("cloud_build_infra", "artifact_registry", cloud_build_infra_iam(cfg))

ArtifactRegistry ==
    Declare("artifact_registry", "secrets", {artifact_registry(cfg)})

Secrets ==
    Declare("secrets", "pubsub", {secret(cfg, secret_name) : secret_name \in Range(secrets)})

PubSub ==
    Declare("pubsub", "scheduler", {summarization_topic(cfg), file_processing_topic(cfg)})

Scheduler ==
    Declare("scheduler", "dns_zone", scheduler_section(cfg, enabled_apis))

DnsZone ==
    Declare("dns_zone", "dns_records", {dns_api(cfg), dns_zone(cfg)})

DnsRecords ==
    Declare("dns_records", "site_verification",
            {apex_a_record(cfg), apex_aaaa_record(cfg), www_cname_record(cfg)})

SiteVerification ==
    Declare("site_verification", "domain_mapping", site_verification_section(cfg))

DomainMapping ==
    /\ pc = "domain_mapping"
    /\ resources' = resources \cup domain_mapping_section(cfg)
    /\ exports' = exports \o domain_mapping_exports(cfg)
    /\ pc' = "exports"
    /\ UNCHANGED <<cfg, enabled_apis, prev, watch, created>>

Exports ==
    /\ pc = "exports"
    /\ exports' = exports \o final_exports(cfg, enabled_apis)
    /\ pc' = "done"
    /\ UNCHANGED <<cfg, enabled_apis, resources, prev, watch, created>>

Evaluate ==
    \/ SkipCheck \/ EnableApis \/ CloudSql \/ Buckets \/ ServiceAccount \/ CicdIam
    \/ CloudBuildInfra \/ ArtifactRegistry \/ Secrets \/ PubSub \/ Scheduler \/ DnsZone
    \/ DnsRecords \/ SiteVerification \/ DomainMapping \/ Exports

\* The program is evaluated once per deployment operation: the next
\* operation evaluates it afresh, for any stack configuration.  prev keeps
\* the outcome of the evaluation before.
Reevaluate ==
    /\ pc \in {"done", "exited"}
    /\ prev' = [valid |-> TRUE, cfg |-> cfg, resources |-> resources, exports |-> exports]
    /\ cfg' \in Configs
    /\ pc' = "skip_check"
    /\ enabled_apis' = <<>>
    /\ resources' = {}
    /\ exports' = <<>>
    /\ UNCHANGED <<watch, created>>

Next == Evaluate \/ Reevaluate

Spec == Init /\ [][Next]_vars

(***************************************************************************)
(* The provisioning engine.  It creates the declared resources in any      *)
(* order that respects the declared dependencies: a resource is created    *)
(* once every resource in its depends_on and every resource whose output   *)
(* it takes as an input has been created.  The model follows the creation  *)
(* of the resources in watch, at most MaxWatch of them, chosen freely when *)
(* the deployment starts; a resource outside watch is created as soon as   *)
(* it can be, which leaves the watched ones exactly the orders they have   *)
(* in some creation order of the whole graph.                              *)
(***************************************************************************)
MaxWatch == 2

Names == {r.name : r \in resources}

ByName(n) == CHOOSE r \in resources : r.name = n

\* The declared dependencies of a resource: depends_on and output references
Deps(r) == r.depends_on \cup r.refs

RECURSIVE SubsetsUpTo(_, _)
SubsetsUpTo(S, k) ==
    IF k = 0 THEN {{}}
    ELSE LET P == SubsetsUpTo(S, k - 1) IN P \cup {p \cup {x} : p \in P, x \in S}

\* seen is the chain of resources that wait for n: a resource that waits
\* for itself is never ready
RECURSIVE ReadyFrom(_, _)
ReadyFrom(n, seen) ==
    \A d \in Deps(ByName(n)) :
        IF d \in watch THEN d \in created
        ELSE d \notin seen /\ ReadyFrom(d, seen \cup {d})

Ready(n) == ReadyFrom(n, {n})

BeginApply ==
    /\ pc = "done"
    /\ watch' \in SubsetsUpTo(Names, MaxWatch)
    /\ pc' = "apply"
    /\ UNCHANGED <<cfg, enabled_apis, resources, exports, prev, created>>

Create ==
    /\ pc = "apply"
    /\ \E n \in watch \ created :
          /\ Ready(n)
          /\ created' = created \cup {n}
    /\ UNCHANGED <<cfg, pc, enabled_apis, resources, exports, prev, watch>>

NextApply == Evaluate \/ BeginApply \/ Create

SpecApply == Init /\ [][NextApply]_vars

\* The engine does not stop while a resource can be created, and no
\* creation fails
SpecApplyFair == SpecApply /\ WF_vars(Create)

(***************************************************************************)
(* Properties                                                              *)
(***************************************************************************)
Finished == pc \in {"done", "exited"}

ByType(t) == {r \in resources : r.type = t}

RecordTypes == {r.props["type"] : r \in ByType("gcp.dns.RecordSet")}

SchedulerJobs == ByType("gcp.cloudscheduler.Job")

SecretIds == {"database-url", "google-client-id", "google-client-secret", "apple-client-id",
              "apple-client-secret", "stripe-secret-key", "stripe-webhook-secret"}

\* The resources every environment is said to get, the scheduled job aside
FixedSetNoJob ==
    /\ Cardinality(ByType("gcp.sql.DatabaseInstance")) = 1
    /\ {r.props["name"] : r \in ByType("gcp.storage.Bucket")}
           = {"expert-agent-uploads-" \o cfg.env, "expert-agent-summaries-" \o cfg.env}
    /\ Cardinality(ByType("gcp.storage.Bucket")) = 2
    /\ Cardinality(ByType("gcp.serviceaccount.Account")) = 1
    /\ {r.props["secret_id"] : r \in ByType("gcp.secretmanager.Secret")} = SecretIds
    /\ Cardinality(ByType("gcp.secretmanager.Secret")) = 7
    /\ {r.props["name"] : r \in ByType("gcp.pubsub.Topic")}
           = {"session-summarization-" \o cfg.env, "file-processing-" \o cfg.env}
    /\ Cardinality(ByType("gcp.pubsub.Topic")) = 2
    /\ Cardinality(ByType("gcp.artifactregistry.Repository")) = 1
    /\ Cardinality(ByType("gcp.dns.ManagedZone")) = 1
    /\ {"A", "AAAA", "CNAME"} \subseteq RecordTypes

\* C1 as stated: whatever the environment, a finished evaluation has declared
\* the whole fixed set of resources, the scheduled job included.
C1_SameSetInEveryEnv ==
    Finished => (FixedSetNoJob /\ Cardinality(SchedulerJobs) = 1)

\* C1, amended: a finished evaluation has declared the whole fixed set with
\* the scheduled job for beta and gamma, the fixed set without a scheduled
\* job for dev, and no resource at all for prod.
C1_FixedSetPerEnv ==
    Finished =>
        CASE cfg.env \in {"beta", "gamma"} -> FixedSetNoJob /\ Cardinality(SchedulerJobs) = 1
          [] cfg.env = "dev"  -> FixedSetNoJob /\ SchedulerJobs = {}
          [] cfg.env = "prod" -> resources = {}

C1_Witness ==
    /\ pc = "done" /\ cfg.env = "dev" /\ FixedSetNoJob /\ SchedulerJobs = {}
    /\ prev.valid /\ prev.cfg.env = "gamma"
    /\ \E r \in prev.resources : r.type = "gcp.cloudscheduler.Job"

\* The API that has to be enabled for a resource of the type to be created
ApiOf ==
    ("gcp.sql.DatabaseInstance" :> "sqladmin.googleapis.com")
    @@ ("gcp.storage.Bucket" :> "storage.googleapis.com")
    @@ ("gcp.secretmanager.Secret" :> "secretmanager.googleapis.com")
    @@ ("gcp.pubsub.Topic" :> "pubsub.googleapis.com")
    @@ ("gcp.artifactregistry.Repository" :> "artifactregistry.googleapis.com")
    @@ ("gcp.serviceaccount.Account" :> "iam.googleapis.com")
    @@ ("gcp.cloudscheduler.Job" :> "cloudscheduler.googleapis.com")
    @@ ("gcp.dns.ManagedZone" :> "dns.googleapis.com")

\* n is created, in so far as the model follows its creation
CreatedIfWatched(n) == n \in watch => n \in created

\* C2: whatever order the engine creates the resources in, a created resource
\* of a cloud service finds the gcp.projects.Service resource that enables
\* the API of that service created already.
C2_ApiBeforeResource ==
    \A r \in resources :
        (r.name \in created /\ r.type \in DOMAIN ApiOf) =>
            \A s \in ByType("gcp.projects.Service") :
                s.props["service"] = ApiOf[r.type] => CreatedIfWatched(s.name)

\* C3: whatever order the engine creates the resources in, a created DNS
\* record set (A, AAAA, CNAME or TXT) finds the managed zone dns-zone-{env}
\* created already, and a created managed zone finds enable-dns-api created
\* already.
C3_ZoneBeforeRecords ==
    /\ \A r \in ByType("gcp.dns.RecordSet") :
          /\ r.props["type"] \in {"A", "AAAA", "CNAME", "TXT"}
          /\ r.name \in created =>
                /\ "dns-zone-" \o cfg.env \in Names
                /\ CreatedIfWatched("dns-zone-" \o cfg.env)
    /\ \A z \in ByType("gcp.dns.ManagedZone") :
          /\ z.name = "dns-zone-" \o cfg.env
          /\ z.name \in created =>
                /\ "enable-dns-api" \in Names
                /\ CreatedIfWatched("enable-dns-api")

C3_Witness ==
    /\ pc = "apply"
    /\ watch = {"dns-site-verification-" \o cfg.env, "dns-zone-" \o cfg.env}
    /\ created = watch

Injective(f, S) == \A a, b \in S : f[a] = f[b] => a = b

\* The IAM members a resource grants a role to
Members(r) ==
    (IF "member" \in DOMAIN r.props THEN {r.props["member"]} ELSE {})
    \cup (IF "members" \in DOMAIN r.lists THEN Range(r.lists["members"]) ELSE {})

\* The members that name an account of project p: by its ID, or by the
\* project number looked up for it
MembersBuiltFrom(p) ==
    { "serviceAccount:cloud-build-infra@" \o p \o ".iam.gserviceaccount.com",
      "serviceAccount:${projects/" \o p \o ".number}@cloudbuild.gserviceaccount.com",
      "serviceAccount:${projects/" \o p \o ".number}-compute@developer.gserviceaccount.com" }

\* The member that is the service account declared in the same evaluation
DeclaredAccountMembers ==
    {"serviceAccount:${" \o a.name \o ".email}" : a \in ByType("gcp.serviceaccount.Account")}

\* C4: the environments map to distinct projects, domains and zone names,
\* none of them the root project; every declared resource that carries a
\* project carries projects[env], and every IAM member granted a role is the
\* account declared in this evaluation or an account of projects[env], never
\* one of another environment's project or of the root project.
C4_Isolation ==
    /\ Injective(projects, Envs)
    /\ \A e \in Envs : projects[e] # projects["root"]
    /\ Injective([e \in Envs |-> DOMAIN_CONFIGS[e].domain], Envs)
    /\ Injective([e \in Envs |-> DOMAIN_CONFIGS[e].dns_zone_name], Envs)
    /\ \A r \in resources :
          /\ "project" \in DOMAIN r.props => r.props["project"] = projects[cfg.env]
          /\ "metadata.namespace" \in DOMAIN r.props =>
                r.props["metadata.namespace"] = projects[cfg.env]
          /\ Members(r) \subseteq DeclaredAccountMembers \cup MembersBuiltFrom(projects[cfg.env])
          /\ \A k \in DOMAIN projects :
                projects[k] # projects[cfg.env] => Members(r) \cap MembersBuiltFrom(projects[k]) = {}

C4_Witness ==
    /\ pc = "done" /\ cfg.env = "gamma"
    /\ \E r \in resources :
          /\ r.name = "cloud-build-infra-editor-gamma"
          /\ Members(r) = {"serviceAccount:cloud-build-infra@expert-ai-gamma.iam.gserviceaccount.com"}
    /\ \E r \in resources : r.name = "cloud-build-acts-as-cloud-run-sa-gamma"

\* Every string a declared resource carries as a property
StrValues(r) ==
    {r.props[k] : k \in DOMAIN r.props} \cup UNION {Range(r.lists[k]) : k \in DOMAIN r.lists}

Wired(v) == \E r \in resources : v \in StrValues(r)

TierAndDomainWired ==
    /\ ByType("gcp.sql.DatabaseInstance") # {}
    /\ \A r \in ByType("gcp.sql.DatabaseInstance") :
          r.props["settings.tier"] = ENV_CONFIGS[cfg.env].cloud_sql_tier
    /\ ByType("gcp.dns.ManagedZone") # {}
    /\ \A z \in ByType("gcp.dns.ManagedZone") :
          z.props["dns_name"] = DOMAIN_CONFIGS[cfg.env].domain \o "."
    /\ \A r \in ByType("gcp.dns.RecordSet") :
          r.props["name"] \in { DOMAIN_CONFIGS[cfg.env].domain \o ".",
                                "www." \o DOMAIN_CONFIGS[cfg.env].domain \o "." }

\* C5 as stated: an evaluation that declares resources wires the tier, the
\* domain, and the Cloud Run memory and CPU values of the tables into them.
C5_AllParametersWired ==
    pc = "done" =>
        /\ TierAndDomainWired
        /\ Wired(ENV_CONFIGS[cfg.env].cloud_run_memory)
        /\ Wired(ENV_CONFIGS[cfg.env].cloud_run_cpu)

\* C5, amended: an evaluation that declares resources wires the tier into the
\* database instance and the domain into the DNS zone and record names; the
\* Cloud Run memory and CPU values of the table reach no declared resource.
C5_TierAndDomainOnly ==
    pc = "done" =>
        /\ TierAndDomainWired
        /\ ~Wired(ENV_CONFIGS[cfg.env].cloud_run_memory)
        /\ ~Wired(ENV_CONFIGS[cfg.env].cloud_run_cpu)

C5_Witness ==
    /\ pc = "done" /\ cfg.env = "gamma"
    /\ \E r \in resources : r.type = "gcp.sql.DatabaseInstance" /\ r.props["settings.tier"] = "db-f1-micro"
    /\ \E r \in resources : r.type = "gcp.dns.RecordSet" /\ r.props["name"] = "www.ai-gamma.oz.ly."

ExportKeys(ex) == {ex[i].key : i \in DOMAIN ex}

FullExportKeys ==
    {"project_id", "env", "sql_instance_name", "sql_connection_name", "uploads_bucket",
     "summaries_bucket", "cloud_run_sa_email", "summarization_topic", "file_processing_topic",
     "domain", "dns_zone_name", "dns_nameservers", "domain_mapping_url"}

\* C6: an evaluation that finishes off the skip path has exported exactly the
\* thirteen keys, the same as any evaluation before it that did so for
\* another configuration, and no evaluation writes an export key twice.
C6_ExportKeys ==
    /\ \A i, j \in DOMAIN exports : i # j => exports[i].key # exports[j].key
    /\ pc = "done" =>
          /\ ExportKeys(exports) = FullExportKeys
          /\ (prev.valid /\ ~ENV_CONFIGS[prev.cfg.env].skip_resources) =>
                ExportKeys(prev.exports) = ExportKeys(exports)

C6_Witness ==
    /\ pc = "done" /\ prev.valid
    /\ prev.cfg.env = "dev" /\ cfg.env = "beta"
    /\ prev.cfg.domain_verified = "true" /\ cfg.domain_verified = NoneVal
    /\ prev.cfg.site_verification_token = NoneVal /\ cfg.site_verification_token # NoneVal
    /\ Len(exports) = 13

ExportIndex(key) == (CHOOSE i \in DOMAIN exports : exports[i].key = key)

\* C7: with skip_resources set (prod) the evaluation declares nothing and
\* ends right after the check, with exactly the exports project_id, env,
\* skip_resources = True and message; without it, it never exports
\* skip_resources or message and does not end there.
C7_SkipPath ==
    IF ENV_CONFIGS[cfg.env].skip_resources
        THEN /\ cfg.env = "prod"
             /\ resources = {}
             /\ pc \in {"skip_check", "exited"}
             /\ pc = "exited" =>
                   /\ Len(exports) = 4
                   /\ ExportKeys(exports) = {"project_id", "env", "skip_resources", "message"}
                   /\ exports[ExportIndex("skip_resources")].value = "True"
                   /\ exports[ExportIndex("project_id")].value = projects[cfg.env]
                   /\ exports[ExportIndex("env")].value = cfg.env
        ELSE /\ pc # "exited"
             /\ ExportKeys(exports) \cap {"skip_resources", "message"} = {}

C7_Witness ==
    pc = "exited" /\ cfg.env = "prod" /\ Len(exports) = 4 /\ resources = {}

HasImport(r) == r.import_ # NoneVal

\* The resources the program adopts in dev: those that existed before
Adoptable(r) ==
    \/ r.type \in {"gcp.storage.Bucket", "gcp.serviceaccount.Account",
                   "gcp.artifactregistry.Repository", "gcp.secretmanager.Secret",
                   "gcp.pubsub.Topic", "gcp.dns.ManagedZone", "gcp.cloudrun.DomainMapping"}
    \/ r.type = "gcp.dns.RecordSet" /\ r.props["type"] \in {"A", "AAAA"}

\* The import ID of a resource of its type with the properties r has
ImportIdOf(r) ==
    CASE r.type = "gcp.storage.Bucket" ->
            r.props["project"] \o "/" \o r.props["name"]
      [] r.type = "gcp.serviceaccount.Account" ->
            "projects/" \o r.props["project"] \o "/serviceAccounts/" \o r.props["account_id"]
                \o "@" \o r.props["project"] \o ".iam.gserviceaccount.com"
      [] r.type = "gcp.artifactregistry.Repository" ->
            "projects/" \o r.props["project"] \o "/locations/" \o r.props["location"]
                \o "/repositories/" \o r.props["repository_id"]
      [] r.type = "gcp.secretmanager.Secret" ->
            "projects/" \o r.props["project"] \o "/secrets/" \o r.props["secret_id"]
      [] r.type = "gcp.pubsub.Topic" ->
            "projects/" \o r.props["project"] \o "/topics/" \o r.props["name"]
      [] r.type = "gcp.dns.ManagedZone" ->
            "projects/" \o r.props["project"] \o "/managedZones/" \o r.props["name"]
      [] r.type = "gcp.dns.RecordSet" ->
            r.props["project"] \o "/" \o r.props["managed_zone"] \o "/" \o r.props["name"]
                \o "/" \o r.props["type"]
      [] r.type = "gcp.cloudrun.DomainMapping" ->
            "locations/" \o r.props["location"] \o "/namespaces/" \o r.props["metadata.namespace"]
                \o "/domainmappings/" \o r.props["name"]
      [] OTHER -> NoneVal

\* C8: an evaluation that declares resources declares some with an import ID
\* and a non-empty ignore_changes list exactly when env is dev.  A resource
\* carries an import ID exactly when its ignore_changes list is not empty;
\* for beta and gamma no resource carries one; in dev the resources that
\* existed before carry one (the buckets, the service account, the
\* repository, the secrets, the topics, the DNS zone, the apex A and AAAA
\* record sets, the domain mapping), and each import ID is the ID of the
\* project and the name or identifier the resource is declared with.
C8_AdoptionOnlyInDev ==
    /\ pc = "done" =>
          ((\E r \in resources : HasImport(r) /\ r.ignore_changes # <<>>) <=> cfg.env = "dev")
    /\ \A r \in resources :
          /\ HasImport(r) <=> r.ignore_changes # <<>>
          /\ HasImport(r) <=> (cfg.env = "dev" /\ Adoptable(r))
          /\ cfg.env \in {"beta", "gamma"} => (r.import_ = NoneVal /\ r.ignore_changes = <<>>)
          /\ HasImport(r) => r.import_ = ImportIdOf(r)

C8_Witness ==
    /\ pc = "done" /\ cfg.env = "dev" /\ cfg.region # NoneVal
    /\ \E r \in resources : r.type = "gcp.cloudrun.DomainMapping" /\ HasImport(r)
    /\ \E r \in resources : r.name = "dns-apex-aaaa-dev" /\ HasImport(r)
    /\ \E r \in resources : r.name = "dns-site-verification-dev" /\ ~HasImport(r)

IsDomainMapping(r) == r.type = "gcp.cloudrun.DomainMapping"

IsTxtRecord(r) == r.type = "gcp.dns.RecordSet" /\ r.props["type"] = "TXT"

\* The declared resources other than the two that hang on the flags
Others(R) == {r \in R : ~IsDomainMapping(r) /\ ~IsTxtRecord(r)}

\* C9: an evaluation that declares resources declares the domain mapping
\* exactly when domain_verified is true, exporting https://<domain> then and
\* the pending message otherwise, and the TXT record set exactly when
\* site_verification_token is a non-empty string; an earlier evaluation for
\* the same env and region with other flags declared the same other
\* resources.
C9_ConditionalInclusion ==
    pc = "done" =>
        /\ (\E r \in resources : IsDomainMapping(r)) <=> cfg.domain_verified = "true"
        /\ exports[ExportIndex("domain_mapping_url")].value =
              IF cfg.domain_verified = "true"
                  THEN "https://" \o DOMAIN_CONFIGS[cfg.env].domain
                  ELSE PendingMessage
        /\ (\E r \in resources : IsTxtRecord(r))
              <=> cfg.site_verification_token \notin {NoneVal, ""}
        /\ (prev.valid /\ prev.cfg.env = cfg.env /\ prev.cfg.region = cfg.region) =>
              Others(prev.resources) = Others(resources)

C9_Witness ==
    /\ pc = "done" /\ prev.valid
    /\ prev.cfg.env = cfg.env /\ prev.cfg.region = cfg.region
    /\ prev.cfg.domain_verified = "true" /\ cfg.domain_verified = "false"
    /\ prev.cfg.site_verification_token = "" /\ cfg.site_verification_token \notin {NoneVal, ""}
    /\ \E r \in resources : IsTxtRecord(r)
    /\ \E r \in prev.resources : IsDomainMapping(r)

\* C10: the scheduler job is declared exactly when the evaluation declares
\* resources and env is not dev; a declared job depends on every API service
\* of the list enabled_apis, the thirteen required APIs, and takes the e-mail
\* of the service account of this evaluation, and whatever order the engine
\* creates the resources in, a created job finds those services and that
\* account created already.
C10_SchedulerNotInDev ==
    /\ pc \in {"done", "exited", "apply"} =>
          (SchedulerJobs # {} <=> (~ENV_CONFIGS[cfg.env].skip_resources /\ cfg.env # "dev"))
    /\ \A j \in SchedulerJobs :
          /\ Len(enabled_apis) = 13
          /\ Range(enabled_apis) \subseteq j.depends_on
          /\ \A s \in ByType("gcp.projects.Service") :
                s.name # "enable-dns-api" => s.name \in Range(enabled_apis)
          /\ \E a \in ByType("gcp.serviceaccount.Account") :
                /\ a.name = "expert-agent-sa-" \o cfg.env
                /\ j.props["http_target.oidc_token.service_account_email"]
                      = "${" \o a.name \o ".email}"
                /\ j.name \in created =>
                      /\ CreatedIfWatched(a.name)
                      /\ \A n \in Range(enabled_apis) : CreatedIfWatched(n)

C10_Witness ==
    /\ pc = "apply" /\ cfg.env = "beta"
    /\ watch = {"memory-summarization-job-beta", "expert-agent-sa-beta"}
    /\ created = watch

\* The resources left once every resource whose dependencies are all in
\* done has been added to done, again and again
RECURSIVE Peel(_)
Peel(done) ==
    LET next == {r.name : r \in {x \in resources : x.name \notin done /\ Deps(x) \subseteq done}}
    IN  IF next = {} THEN done ELSE Peel(done \cup next)

\* No resource depends, directly or through others, on itself
Acyclic == Peel({}) = Names

NoDeadlock ==
    (pc = "apply" /\ created # watch) => \E n \in watch \ created : Ready(n)

AllCreated == pc = "apply" /\ created = watch

\* C11: for every environment and configuration the declared dependencies
\* (depends_on and output references) name declared resources and have no
\* cycle; an engine that keeps creating any resource whose dependencies are
\* all created always has one to create until all are created, and with weak
\* fairness and no failing creation it gets every resource it set out to
\* create created.
C11_AcyclicAndLive ==
    /\ [](Acyclic /\ NoDeadlock /\ \A r \in resources : Deps(r) \subseteq Names)
    /\ (pc = "apply") ~> AllCreated

C11_Witness ==
    /\ pc = "apply" /\ cfg.env = "gamma"
    /\ watch = {"expert-agent-db-user-gamma", "domain-mapping-gamma"}
    /\ created = watch
    /\ Acyclic

====
